---- MODULE Spec2Model ----
(***************************************************************************)
(* In-place intersection update of sorted C++ containers.                  *)
(*                                                                         *)
(*   intersection_update.cc   IntersectionUpdateLargeAc, IntersectionUpdate*)
(*                            for std::set                                 *)
(*   intersection_update2.cc  IntersectionUpdateLargeAc, IntersectionUpdate*)
(*                            for any container, and the std::vector       *)
(*                            overload of IntersectionUpdate               *)
(*                                                                         *)
(* ac is a sequence of values.  The original elements of bc are numbered   *)
(* 1..Len(orig): orig[i] is the value of occurrence i and bc is the        *)
(* sequence of the occurrences the container holds now.  An iterator of a  *)
(* node-based container (set, multiset, list) is the occurrence it points  *)
(* to, End for end(); an iterator of a vector is a position, 1 for         *)
(* begin().  An iterator of ac is a position in ac.                        *)
(***************************************************************************)
EXTENDS Integers, Sequences, FiniteSets

VARIABLES
  ac,       \* the read-only container
  orig,     \* the values of the elements bc is constructed with
  bc,       \* the occurrences held by the mutable container, in order
  phase,    \* "idle", "first" call, "second" call
  op,       \* the function being run
  pc,       \* "idle", "entry", "loop", "done", "crashed"
  a, a_end, \* cursors into ac
  b, b_end, \* cursors into bc
  b_high,   \* the vector overload's shrinking upper cursor
  stale,    \* TRUE when a vector erase has invalidated the cursors in use
  visited,  \* the occurrences read through *b by the probe loop, OutOfRange
            \* for a read at or beyond the end of the vector
  ac0, bc0, \* ac and bc as they were when the running call was made
  fresh,    \* TRUE when the second call was given a fresh copy of bc
  prevOp,   \* the function the first call ran
  prevRes   \* the bc the first call left

vars == <<ac, orig, bc, phase, op, pc, a, a_end, b, b_end, b_high, stale,
          visited, ac0, bc0, fresh, prevOp, prevRes>>

MaxVal == 3
MaxLen == 3
MaxAnyLen == 2

Values == 1..MaxVal
SeqsUpTo(n) == UNION {[1..k -> Values] : k \in 0..n}

End == 0
OutOfRange == 0

Ascending(s) == \A i \in 1..(Len(s) - 1) : ~(s[i + 1] < s[i])
StrictlyAscending(s) == \A i \in 1..(Len(s) - 1) : s[i] < s[i + 1]

\* the containers main builds: sorted ones of up to MaxLen elements, and
\* lists and vectors of up to MaxAnyLen elements in any order
Inputs == {s \in SeqsUpTo(MaxLen) : Ascending(s)} \cup SeqsUpTo(MaxAnyLen)

Range(s) == {s[i] : i \in 1..Len(s)}
AllOf(s) == [i \in 1..Len(s) |-> i]
ValuesOf(s) == [i \in 1..Len(s) |-> orig[s[i]]]

----------------------------------------------------------------------------
(* Container primitives *)

\* bc->begin() of a node-based container
Begin(s) == IF s = <<>> THEN End ELSE s[1]

Pos(s, id) == CHOOSE i \in 1..Len(s) : s[i] = id

\* faulty ++b: steps over the element after id
Next_skip(s, id) ==
  LET i == Pos(s, id) IN IF i + 1 >= Len(s) THEN End ELSE s[i + 2]

\* ++b on a node-based container: the element after id, end() after the last
Next_(s, id) ==
  LET i == Pos(s, id) IN IF i = Len(s) THEN End ELSE s[i + 1]

\* bc->erase(b_old) of a node-based container: only that node goes
Erase(s, id) == SelectSeq(s, LAMBDA x : x # id)

\* faulty tail erase: the remaining elements of bc are left in place
EraseRange_none(s, first) == s

\* bc->erase(b, b_end) of a node-based container, b_end being end()
EraseRange(s, first) ==
  IF first = End THEN s ELSE SubSeq(s, 1, Pos(s, first) - 1)

\* bc->erase(pos) of a vector: the later elements move one place left
VecErase(s, i) == SubSeq(s, 1, i - 1) \o SubSeq(s, i + 1, Len(s))

\* bc->erase(b, bc->end()) of a vector
VecTruncate(s, i) == SubSeq(s, 1, i - 1)

\* faulty swap: *b = *b_high, the element at b is lost
IterSwap_copy(s, i, j) == [s EXCEPT ![i] = s[j]]

\* std::iter_swap(b, b_high)
IterSwap(s, i, j) == [s EXCEPT ![i] = s[j], ![j] = s[i]]

LowerBound(s, v) ==
  LET C == {i \in 1..Len(s) : ~(s[i] < v)}
  IN  IF C = {} THEN Len(s) + 1 ELSE CHOOSE i \in C : \A j \in C : i <= j

\* faulty lookup: starts from the first element greater than v
Find_upper(s, v) ==
  LET C == {i \in 1..Len(s) : v < s[i]}
      i == IF C = {} THEN Len(s) + 1 ELSE CHOOSE k \in C : \A j \in C : k <= j
  IN  IF i <= Len(s) /\ ~(v < s[i]) THEN i ELSE Len(s) + 1

\* ac.find(v) of a set or multiset: the first element not less than v, if v
\* is not less than it, and ac.end() otherwise
Find(s, v) ==
  LET i == LowerBound(s, v)
  IN  IF i <= Len(s) /\ ~(v < s[i]) THEN i ELSE Len(s) + 1

----------------------------------------------------------------------------
(* The functions and the containers each accepts *)

Ops == {"SetLargeAc", "SetMerge", "LargeAc", "VecLargeAc", "Merge", "VecMerge"}

NodeOps == {"SetLargeAc", "SetMerge", "LargeAc", "Merge"}

\* x: the values of ac, y: the values of bc.  A std::set is strictly
\* ascending, a set or multiset is ascending, a list or vector holds its
\* elements in any order.
Admissible(o, x, y) ==
  CASE o \in {"SetLargeAc", "SetMerge"} ->
         StrictlyAscending(x) /\ StrictlyAscending(y)
    [] o \in {"LargeAc", "VecLargeAc"} -> Ascending(x)
    [] OTHER -> TRUE

\* the merge and the probe variant of the same containers
Other(o) ==
  CASE o = "SetLargeAc" -> "SetMerge"
    [] o = "SetMerge" -> "SetLargeAc"
    [] o = "LargeAc" -> "Merge"
    [] o = "Merge" -> "LargeAc"
    [] o = "VecLargeAc" -> "VecMerge"
    [] OTHER -> "VecLargeAc"

Init ==
  /\ ac \in Inputs
  /\ orig \in Inputs
  /\ bc = AllOf(orig)
  /\ phase = "idle"
  /\ op = "none"
  /\ pc = "idle"
  /\ a = 0 /\ a_end = 0 /\ b = 0 /\ b_end = 0 /\ b_high = 0
  /\ stale = FALSE
  /\ visited = <<>>
  /\ ac0 = ac
  /\ bc0 = bc
  /\ fresh = FALSE
  /\ prevOp = "none"
  /\ prevRes = <<>>

Enter(o, nbc, f) ==
  /\ Admissible(o, ac, ValuesOf(nbc))
  /\ op' = o
  /\ bc' = nbc
  /\ bc0' = nbc
  /\ ac0' = ac
  /\ fresh' = f
  /\ pc' = "entry"
  /\ a' = 0 /\ a_end' = 0 /\ b' = 0 /\ b_end' = 0 /\ b_high' = 0
  /\ stale' = FALSE
  /\ visited' = <<>>
  /\ UNCHANGED <<ac, orig>>

\* main: a function is called on the containers
Call ==
  /\ phase = "idle"
  /\ \E o \in Ops : Enter(o, bc, FALSE)
  /\ phase' = "first"
  /\ UNCHANGED <<prevOp, prevRes>>

\* main: the same function is called again on the bc it left
CallAgain ==
  /\ phase = "first"
  /\ pc = "done"
  /\ Enter(op, bc, FALSE)
  /\ phase' = "second"
  /\ prevOp' = op
  /\ prevRes' = bc

\* main: the other variant is called on the same ac and an equal copy of
\* the bc the first call was given
CallOther ==
  /\ phase = "first"
  /\ pc = "done"
  /\ Enter(Other(op), AllOf(orig), TRUE)
  /\ phase' = "second"
  /\ prevOp' = op
  /\ prevRes' = bc

Frame == UNCHANGED <<ac, orig, phase, op, ac0, bc0, fresh, prevOp, prevRes>>

----------------------------------------------------------------------------
(* intersection_update.cc *)

Set_IntersectionUpdateLargeAc ==
  /\ op = "SetLargeAc"
  /\ pc \in {"entry", "loop"}
  /\ IF pc = "entry"
       THEN /\ a_end' = Len(ac) + 1
            /\ b_end' = End
            /\ b' = Begin(bc)
            /\ pc' = "loop"
            /\ UNCHANGED <<bc, visited>>
       ELSE IF b # b_end
         THEN /\ visited' = Append(visited, b)
              /\ b' = Next_(bc, b)
              /\ bc' = IF Find(ac, orig[b]) = a_end THEN Erase(bc, b) ELSE bc
              /\ UNCHANGED <<a_end, b_end, pc>>
         ELSE /\ pc' = "done"
              /\ UNCHANGED <<bc, a_end, b, b_end, visited>>
  /\ UNCHANGED <<a, b_high, stale>>
  /\ Frame

Set_IntersectionUpdate ==
  /\ op = "SetMerge"
  /\ pc \in {"entry", "loop"}
  /\ IF pc = "entry"
       THEN /\ a' = 1
            /\ a_end' = 1
            /\ b' = Begin(bc)
            /\ b_end' = End
            /\ pc' = "loop"
            /\ UNCHANGED bc
       ELSE IF a # a_end /\ b # b_end
         THEN /\ a' = IF ac[a] > orig[b] THEN a ELSE a + 1
              /\ b' = IF ac[a] < orig[b] THEN b ELSE Next_(bc, b)
              /\ bc' = IF ac[a] > orig[b] THEN Erase(bc, b) ELSE bc
              /\ UNCHANGED <<a_end, b_end, pc>>
         ELSE /\ bc' = EraseRange(bc, b)
              /\ pc' = "done"
              /\ UNCHANGED <<a, a_end, b, b_end>>
  /\ UNCHANGED <<b_high, stale, visited>>
  /\ Frame

----------------------------------------------------------------------------
(* intersection_update2.cc *)

IntersectionUpdateLargeAc ==
  /\ op = "LargeAc"
  /\ pc \in {"entry", "loop"}
  /\ IF pc = "entry"
       THEN /\ a_end' = Len(ac) + 1
            /\ b_end' = End
            /\ b' = Begin(bc)
            /\ pc' = "loop"
            /\ UNCHANGED <<bc, visited>>
       ELSE IF b # b_end
         THEN /\ visited' = Append(visited, b)
              /\ b' = Next_(bc, b)
              /\ bc' = IF Find(ac, orig[b]) = a_end THEN Erase(bc, b) ELSE bc
              /\ UNCHANGED <<a_end, b_end, pc>>
         ELSE /\ pc' = "done"
              /\ UNCHANGED <<bc, a_end, b, b_end, visited>>
  /\ UNCHANGED <<a, b_high, stale>>
  /\ Frame

\* faulty merge: ++a on an equal comparison too, as for a std::set
MergeAdvanceA_always(i, x, y) == IF y < x THEN i ELSE i + 1

\* faulty merge: a is not advanced when *a < *b
MergeAdvanceA_never(i, x, y) == i

\* cursor a after one iteration of the merge loop on *a = x and *b = y:
\* ++a only when *a < *b, not when the two are equal
MergeAdvanceA(i, x, y) == IF x < y THEN i + 1 ELSE i

IntersectionUpdate ==
  /\ op = "Merge"
  /\ pc \in {"entry", "loop"}
  /\ IF pc = "entry"
       THEN /\ a' = 1
            /\ a_end' = Len(ac) + 1
            /\ b' = Begin(bc)
            /\ b_end' = End
            /\ pc' = "loop"
            /\ UNCHANGED bc
       ELSE IF a # a_end /\ b # b_end
         THEN /\ a' = MergeAdvanceA(a, ac[a], orig[b])
              /\ b' = IF ac[a] < orig[b] THEN b ELSE Next_(bc, b)
              /\ bc' = IF ac[a] > orig[b] THEN Erase(bc, b) ELSE bc
              /\ UNCHANGED <<a_end, b_end, pc>>
         ELSE /\ bc' = EraseRange(bc, b)
              /\ pc' = "done"
              /\ UNCHANGED <<a, a_end, b, b_end>>
  /\ UNCHANGED <<b_high, stale, visited>>
  /\ Frame

Vec_IntersectionUpdate ==
  /\ op = "VecMerge"
  /\ pc \in {"entry", "loop"}
  /\ IF pc = "entry"
       THEN /\ a' = 1
            /\ a_end' = Len(ac) + 1
            /\ b' = 1
            /\ b_high' = Len(bc) + 1
            /\ pc' = "loop"
            /\ UNCHANGED bc
       ELSE IF a # a_end /\ b # b_high
         THEN IF ac[a] < orig[bc[b]]
                THEN /\ a' = a + 1
                     /\ UNCHANGED <<b, b_high, bc, a_end, pc>>
                ELSE IF ac[a] > orig[bc[b]]
                  THEN /\ b_high' = b_high - 1
                       /\ bc' = IterSwap(bc, b, b_high - 1)
                       /\ UNCHANGED <<a, b, a_end, pc>>
                  ELSE /\ a' = a + 1
                       /\ b' = b + 1
                       /\ UNCHANGED <<b_high, bc, a_end, pc>>
         ELSE /\ bc' = VecTruncate(bc, b)
              /\ pc' = "done"
              /\ UNCHANGED <<a, a_end, b, b_high>>
  /\ UNCHANGED <<b_end, stale, visited>>
  /\ Frame

\* What a build may do with the cursors of a vector once an erase has
\* invalidated them: go on with them as plain positions into the storage,
\* or stop the program (checked iterators, a fault).
Outcomes(invalid) == IF invalid THEN {"proceed", "abort"} ELSE {"proceed"}

\* IntersectionUpdateLargeAc with bc a std::vector.  b_end is the position
\* one past the last element at the time of the call.  erase moves the later
\* elements one place left and invalidates b and b_end.  A read of *b at or
\* beyond the end of the vector yields any value, so the lookup may find it
\* or not; an erase there takes the last element off the vector or stops
\* the program.
Vec_IntersectionUpdateLargeAc ==
  /\ op = "VecLargeAc"
  /\ pc \in {"entry", "loop"}
  /\ IF pc = "entry"
       THEN /\ a_end' = Len(ac) + 1
            /\ b_end' = Len(bc) + 1
            /\ b' = 1
            /\ pc' = "loop"
            /\ UNCHANGED <<bc, visited, stale>>
       ELSE IF b # b_end
         THEN \E outcome \in Outcomes(stale) :
                IF outcome = "abort"
                  THEN /\ pc' = "crashed"
                       /\ UNCHANGED <<bc, a_end, b, b_end, visited, stale>>
                  ELSE IF b <= Len(bc)
                    THEN /\ visited' = Append(visited, bc[b])
                         /\ b' = b + 1
                         /\ IF Find(ac, orig[bc[b]]) = a_end
                              THEN /\ bc' = VecErase(bc, b)
                                   /\ stale' = TRUE
                              ELSE UNCHANGED <<bc, stale>>
                         /\ UNCHANGED <<a_end, b_end, pc>>
                    ELSE /\ visited' = Append(visited, OutOfRange)
                         /\ \E found \in BOOLEAN :
                              IF found
                                THEN /\ b' = b + 1
                                     /\ UNCHANGED <<bc, pc>>
                                ELSE IF bc = <<>>
                                  THEN /\ pc' = "crashed"
                                       /\ UNCHANGED <<bc, b>>
                                  ELSE /\ bc' = SubSeq(bc, 1, Len(bc) - 1)
                                       /\ b' = b + 1
                                       /\ UNCHANGED pc
                         /\ UNCHANGED <<a_end, b_end, stale>>
         ELSE /\ pc' = "done"
              /\ UNCHANGED <<bc, a_end, b, b_end, visited, stale>>
  /\ UNCHANGED <<a, b_high>>
  /\ Frame

----------------------------------------------------------------------------

Next ==
  \/ Call
  \/ CallAgain
  \/ CallOther
  \/ Set_IntersectionUpdateLargeAc
  \/ Set_IntersectionUpdate
  \/ IntersectionUpdateLargeAc
  \/ IntersectionUpdate
  \/ Vec_IntersectionUpdate
  \/ Vec_IntersectionUpdateLargeAc

Spec == Init /\ [][Next]_vars

----------------------------------------------------------------------------
(* What a call is expected to leave *)

InAc(v) == \E j \in 1..Len(ac) : ac[j] = v

\* the occurrences of s whose value is in ac, in the order of s
Kept(s) == SelectSeq(s, LAMBDA id : InAc(orig[id]))

AscendingCall == Ascending(ac) /\ Ascending(ValuesOf(bc0))

StrictlyAscendingCall ==
  StrictlyAscending(ac) /\ StrictlyAscending(ValuesOf(bc0))

HasRepeats(s) == \E i \in 1..(Len(s) - 1) : s[i] = s[i + 1]

\* C1: after IntersectionUpdateLargeAc (either file) returns on an ascending
\* ac and an ascending node-based bc, bc is exactly the sequence of the
\* original occurrences whose value is in ac.
C1_LargeAcResult ==
  (pc = "done" /\ op \in {"SetLargeAc", "LargeAc"} /\ AscendingCall)
    => bc = Kept(bc0)

C1_Witness ==
  /\ pc = "done" /\ op = "LargeAc" /\ phase = "first"
  /\ ac = <<1, 3>> /\ orig = <<1, 1, 2>>
  /\ bc = <<1, 2>>

\* C2: after the generic merge IntersectionUpdate returns on an ascending ac
\* and an ascending node-based bc, either with repeated values, bc is exactly
\* the sequence of the original occurrences whose value is in ac.
C2_MergeResult ==
  (pc = "done" /\ op = "Merge" /\ AscendingCall) => bc = Kept(bc0)

C2_Witness ==
  /\ pc = "done" /\ op = "Merge" /\ phase = "first"
  /\ ac = <<1, 1, 3>> /\ orig = <<1, 1, 2>>
  /\ bc = <<1, 2>>

\* C3: after the std::set merge IntersectionUpdate of intersection_update.cc
\* returns, bc holds exactly the elements of the original bc that are in ac.
C3_SetMergeResult ==
  (pc = "done" /\ op = "SetMerge") => bc = Kept(bc0)

\* C4: after the vector overload of IntersectionUpdate returns on a strictly
\* ascending ac and a strictly ascending vector bc, bc is exactly the
\* original elements that are in ac, in their original order.
C4_VecMergeResult ==
  (pc = "done" /\ op = "VecMerge" /\ StrictlyAscendingCall)
    => bc = Kept(bc0)

\* C9: when the ascending vector bc holds repeated equal values, the vector
\* overload of IntersectionUpdate retains every occurrence of a value that
\* is in ac.
C9_VecMergeKeepsRepeats ==
  (pc = "done" /\ op = "VecMerge" /\ AscendingCall
     /\ HasRepeats(ValuesOf(bc0)))
    => \A id \in Range(bc0) : InAc(orig[id]) => id \in Range(bc)

RECURSIVE IsSubseq(_, _)
\* s is t with some of its elements removed
IsSubseq(s, t) ==
  IF s = <<>> THEN TRUE
  ELSE IF t = <<>> THEN FALSE
  ELSE IF Head(s) = Head(t) THEN IsSubseq(Tail(s), Tail(t))
  ELSE IsSubseq(s, Tail(t))

\* s holds the occurrences of t, each once, in some order
IsRearranged(s, t) ==
  /\ Len(s) = Len(t)
  /\ Range(s) = Range(t)

Running == pc \in {"entry", "loop", "done"}

MergeAndNodeOps == NodeOps \cup {"VecMerge"}

\* C5 as stated: in every state during and after a call of the two
\* IntersectionUpdateLargeAc, the set merge, the generic merge and the vector
\* overload, ac is what it was before the call and bc is a subsequence of
\* the original bc.
C5_FrameAsStated ==
  (op \in MergeAndNodeOps /\ Running /\ AscendingCall)
    => /\ ac = ac0
       /\ IsSubseq(ValuesOf(bc), ValuesOf(bc0))

\* C5 amended: in every such state ac is what it was before the call; a
\* node-based bc is a subsequence of the original occurrences; the vector
\* overload holds a rearrangement of all the original occurrences until it
\* truncates, and what it returns is a subsequence of the original values.
C5_Frame ==
  (op \in MergeAndNodeOps /\ Running)
    => /\ ac = ac0
       /\ op \in NodeOps => IsSubseq(bc, bc0)
       /\ (op = "VecMerge" /\ pc # "done") => IsRearranged(bc, bc0)
       /\ (op = "VecMerge" /\ pc = "done" /\ AscendingCall)
            => IsSubseq(ValuesOf(bc), ValuesOf(bc0))

C5_Witness ==
  /\ op = "VecMerge" /\ pc = "loop" /\ phase = "first"
  /\ ac = <<2>> /\ orig = <<1, 2>>
  /\ bc = <<2, 1>>

C7_MergeEqualsProbe ==
  (phase = "second" /\ fresh /\ pc = "done" /\ op \in {"Merge", "LargeAc"}
     /\ Ascending(ac) /\ Ascending(orig))
    => bc = prevRes

C7_Witness ==
  /\ phase = "second" /\ fresh /\ pc = "done"
  /\ op = "LargeAc" /\ prevOp = "Merge"
  /\ ac = <<1, 1, 3>> /\ orig = <<1, 1, 2>>
  /\ prevRes = <<1, 2>> /\ bc = <<1, 2>>

\* C8: IntersectionUpdateLargeAc on a sorted vector bc never reads a
\* position at or beyond the current end of bc, examines every original
\* element exactly once, in order, and leaves the original elements that are
\* in ac.
C8_VecLargeAcSupported ==
  (op = "VecLargeAc" /\ Running /\ AscendingCall)
    => /\ OutOfRange \notin Range(visited)
       /\ pc = "done" => (visited = bc0 /\ bc = Kept(bc0))

\* the elements of a node-based s from cursor id to the end
Remaining(s, id) == IF id = End THEN 0 ELSE Len(s) - Pos(s, id) + 1

\* what is left for the loop of the running function to go through
Measure ==
  CASE op \in {"SetLargeAc", "LargeAc"} -> Remaining(bc, b)
    [] op \in {"SetMerge", "Merge"} -> (Len(ac) + 1 - a) + Remaining(bc, b)
    [] op = "VecMerge" -> (Len(ac) + 1 - a) + (b_high - b)
    [] OTHER -> 0

\* the program keeps running: a call that can take a step takes it
FairSpec == Spec /\ WF_vars(Next)

\* C10: every call of the merges and of the probe on a node-based bc
\* terminates, on sorted and unsorted inputs alike: each iteration of the
\* loop strictly decreases what is left of ac plus what is left of bc, the
\* vector overload never takes b past b_high, and the call returns.
C10_Terminates ==
  /\ [][(op \in MergeAndNodeOps /\ pc = "loop" /\ pc' = "loop")
          => /\ Measure' < Measure
             /\ Measure' >= 0
             /\ op = "VecMerge" => b' <= b_high']_vars
  /\ (op \in MergeAndNodeOps /\ pc = "entry") ~> (pc = "done")

C10_Witness ==
  /\ op = "VecMerge" /\ pc = "done" /\ phase = "first"
  /\ ac = <<3, 1>> /\ orig = <<2, 1>>
  /\ a = 1 /\ b = 1 /\ b_high = 1
  /\ bc = <<>>

====
